---------------------------- MODULE Spec2Model ----------------------------
(***************************************************************************)
(* A model of the solar-mapping backend: the Express routes of             *)
(* backend/src/routes (weather, solar, analytics, predictions), the        *)
(* WeatherService and SolarService classes they call, and the arithmetic   *)
(* the services do on JavaScript Numbers (IEEE-754 binary64) and Dates     *)
(* (local-time calendar arithmetic, UTC ISO-8601 formatting).              *)
(***************************************************************************)
EXTENDS Integers, Sequences, FiniteSets, TLC

VARIABLES
    requests,        \* HTTP requests being handled: slot -> record
    clock,           \* the instant new Date() returns, minutes since 2024-01-01T00:00Z
    env,             \* the process configuration: time zone and OPENWEATHER_API_KEY
    weatherService,  \* the module-level WeatherService instance of routes/weather.ts
    scheduler,       \* the cron tasks registered by scheduleDataCollection, and the log
    call             \* a service method invocation under test: inputs and result

vars == <<requests, clock, env, weatherService, scheduler, call>>

(***************************************************************************)
(* Natural numbers of any size, as little-endian sequences of limbs below  *)
(* Base, without leading zero limbs; <<>> is 0.  They carry the 53-bit     *)
(* significands of Numbers and their exact products.                       *)
(***************************************************************************)
Base == 2^15
RECURSIVE IntBitLen(_)
IntBitLen(n) == IF n = 0 THEN 0 ELSE 1 + IntBitLen(n \div 2)

LimbBits == IntBitLen(Base) - 1

RECURSIVE Pow2(_)
Pow2(n) == IF n = 0 THEN 1 ELSE 2 * Pow2(n - 1)

RECURSIVE BFromInt(_)
BFromInt(n) == IF n = 0 THEN <<>> ELSE <<n % Base>> \o BFromInt(n \div Base)

RECURSIVE BNorm(_)
BNorm(a) ==
    IF a = <<>> THEN <<>>
    ELSE IF a[Len(a)] = 0 THEN BNorm(SubSeq(a, 1, Len(a) - 1))
    ELSE a

RECURSIVE BAddC(_, _, _)
BAddC(a, b, c) ==
    IF a = <<>> /\ b = <<>> THEN (IF c = 0 THEN <<>> ELSE <<c>>)
    ELSE LET x == IF a = <<>> THEN 0 ELSE Head(a)
             y == IF b = <<>> THEN 0 ELSE Head(b)
             s == x + y + c
         IN  <<s % Base>> \o BAddC(IF a = <<>> THEN <<>> ELSE Tail(a),
                                   IF b = <<>> THEN <<>> ELSE Tail(b),
                                   s \div Base)

BAdd(a, b) == BAddC(a, b, 0)

\* a - b - c for a >= b + c, c the borrow
RECURSIVE BSubC(_, _, _)
BSubC(a, b, c) ==
    IF a = <<>> THEN <<>>
    ELSE LET y == IF b = <<>> THEN 0 ELSE Head(b)
             s == Head(a) - y - c
         IN  <<IF s < 0 THEN s + Base ELSE s>>
             \o BSubC(Tail(a), IF b = <<>> THEN <<>> ELSE Tail(b), IF s < 0 THEN 1 ELSE 0)

RECURSIVE BMulSmallC(_, _, _)
BMulSmallC(a, k, c) ==
    IF a = <<>> THEN BFromInt(c)
    ELSE LET s == Head(a) * k + c
         IN  <<s % Base>> \o BMulSmallC(Tail(a), k, s \div Base)

\* a * k for 0 <= k < Base
BMulSmall(a, k) == BNorm(BMulSmallC(a, k, 0))

\* a * Base^n
BShiftLimbs(a, n) == IF a = <<>> THEN <<>> ELSE [i \in 1..n |-> 0] \o a

RECURSIVE BMul(_, _)
BMul(a, b) ==
    IF b = <<>> \/ a = <<>> THEN <<>>
    ELSE BAdd(BMulSmall(a, Head(b)), BShiftLimbs(BMul(a, Tail(b)), 1))

\* quotient and remainder of a by k, 0 < k < Base, from the high limb down
RECURSIVE BDivSmallR(_, _, _)
BDivSmallR(a, k, i) ==
    IF i > Len(a) THEN [q |-> <<>>, r |-> 0]
    ELSE LET hi  == BDivSmallR(a, k, i + 1)
             cur == hi.r * Base + a[i]
         IN  [q |-> <<cur \div k>> \o hi.q, r |-> cur % k]

BDivSmall(a, k) ==
    LET d == BDivSmallR(a, k, 1) IN [q |-> BNorm(d.q), r |-> d.r]

RECURSIVE BCmpFrom(_, _, _)
BCmpFrom(a, b, i) ==
    IF i = 0 THEN 0
    ELSE IF a[i] < b[i] THEN -1
    ELSE IF a[i] > b[i] THEN 1
    ELSE BCmpFrom(a, b, i - 1)

\* -1, 0 or 1 as a < b, a = b, a > b
BCmp(a, b) ==
    IF Len(a) < Len(b) THEN -1
    ELSE IF Len(a) > Len(b) THEN 1
    ELSE BCmpFrom(a, b, Len(a))

BitLen(a) == IF a = <<>> THEN 0 ELSE (Len(a) - 1) * LimbBits + IntBitLen(a[Len(a)])

\* a * 2^s
BShl(a, s) == BShiftLimbs(BMulSmall(a, Pow2(s % LimbBits)), s \div LimbBits)

\* floor(a / 2^s)
BShr(a, s) ==
    LET n == s \div LimbBits
    IN  IF n >= Len(a) THEN <<>>
        ELSE BDivSmall(SubSeq(a, n + 1, Len(a)), Pow2(s % LimbBits)).q

BIsOdd(a) == a # <<>> /\ a[1] % 2 = 1

(***************************************************************************)
(* JavaScript Numbers that are finite and not negative: binary64 values    *)
(* m * 2^e with a significand m of exactly Prec bits, or zero.  Every      *)
(* operation computes the exact result and rounds it to nearest, ties to   *)
(* even, as IEEE-754 arithmetic does (the values of the services stay far  *)
(* from the subnormal and the overflow range).                             *)
(***************************************************************************)
Prec == 53

FZero == [m |-> <<>>, e |-> 0]

\* the Number nearest to the exact value m * 2^e (m a natural number)
FRound(m, e) ==
    LET L == BitLen(m)
    IN  IF L = 0 THEN FZero
        ELSE IF L <= Prec THEN [m |-> BShl(m, Prec - L), e |-> e - (Prec - L)]
        ELSE LET s    == L - Prec
                 up   == BAdd(m, BShl(<<1>>, s - 1))
                 q    == BShr(up, s)
                 tie  == BShl(q, s) = up
                 qe   == IF tie /\ BIsOdd(q) THEN <<q[1] - 1>> \o Tail(q) ELSE q
             IN  IF BitLen(qe) > Prec
                 THEN [m |-> BShr(qe, 1), e |-> e + s + 1]
                 ELSE [m |-> qe, e |-> e + s]

FFromInt(n) == FRound(BFromInt(n), 0)

FMul(x, y) == FRound(BMul(x.m, y.m), x.e + y.e)

FAdd(x, y) ==
    IF x.m = <<>> THEN y
    ELSE IF y.m = <<>> THEN x
    ELSE IF x.e >= y.e THEN FRound(BAdd(BShl(x.m, x.e - y.e), y.m), y.e)
    ELSE FRound(BAdd(x.m, BShl(y.m, y.e - x.e)), x.e)

\* x - y for x >= y
FSub(x, y) ==
    IF y.m = <<>> THEN x
    ELSE IF x.e >= y.e THEN FRound(BNorm(BSubC(BShl(x.m, x.e - y.e), y.m, 0)), y.e)
    ELSE FRound(BNorm(BSubC(x.m, BShl(y.m, y.e - x.e), 0)), x.e)

\* x / k for an integer 0 < k < Base: the quotient is taken with three extra
\* bits and a sticky bit for the remainder, then rounded once
FDivInt(x, k) ==
    IF x.m = <<>> THEN FZero
    ELSE LET s == LimbBits + 3
             d == BDivSmall(BShl(x.m, s), k)
             j == BAdd(BShl(d.q, 1), IF d.r = 0 THEN <<>> ELSE <<1>>)
         IN  FRound(j, x.e - s - 1)

\* the Number a decimal literal n/10^k denotes, as n / d for d = 10^k
FDec(n, d) == FDivInt(FFromInt(n), d)

\* -1, 0 or 1 as the exact values compare
FCmp(x, y) ==
    IF x.m = <<>> /\ y.m = <<>> THEN 0
    ELSE IF x.m = <<>> THEN -1
    ELSE IF y.m = <<>> THEN 1
    ELSE IF x.e >= y.e THEN BCmp(BShl(x.m, x.e - y.e), y.m)
    ELSE BCmp(x.m, BShl(y.m, y.e - x.e))

FLe(x, y) == FCmp(x, y) <= 0
FLt(x, y) == FCmp(x, y) < 0

\* whether a and b differ by at most n units in the last place of either
FWithinUlps(a, b, n) ==
    /\ FLe(a, [m |-> BAdd(b.m, BFromInt(n)), e |-> b.e])
    /\ FLe(b, [m |-> BAdd(a.m, BFromInt(n)), e |-> a.e])

(***************************************************************************)
(* Math.random(): a Number in [0, 1).  The engine's generator yields       *)
(* k / 2^53 for an integer 0 <= k < 2^53; DrawK tabulates the k of the     *)
(* draws the model samples: the least and the greatest values, the         *)
(* greatest with an even k, one half, the least positive one, and          *)
(* scattered ones.                                                         *)
(***************************************************************************)
MaxDraw == 3

DrawK(i) ==
    CASE i = 0 -> <<>>
      [] i = 1 -> <<Base - 1, Base - 1, Base - 1, 255>>
      [] i = 3 -> <<Base - 2, Base - 1, Base - 1, 255>>
      [] i = 4 -> <<0, 0, 0, 128>>
      [] i = 5 -> <<1>>
      [] OTHER -> BNorm(<<(i * 7919 + 13) % Base, (i * i * 104729 + 7) % Base,
                          (i * 15485863 + 11) % Base, (i * 37) % 256>>)

Draws == 0..MaxDraw

MathRandom(i) == FRound(DrawK(i), 0 - Prec)

(***************************************************************************)
(* Dates.  A time value is a number of minutes since 2024-01-01T00:00Z     *)
(* (the model's epoch and resolution), or NaN for an Invalid Date.  The    *)
(* calendar operators follow ECMAScript's Day, YearFromTime, MonthFromTime,*)
(* DateFromTime, MakeDay, MakeDate, LocalTime and UTC.                     *)
(***************************************************************************)
MinPerDay == 24 * 60
EpochYear == 2020 + 4

NaNDate == [nan |-> TRUE]
DateOf(t) == [nan |-> FALSE, t |-> t]

IsLeap(y) == (y % 4 = 0 /\ y % 100 # 0) \/ y % 400 = 0
DaysInYear(y) == IF IsLeap(y) THEN 366 ELSE 365

\* month 0..11, as in JavaScript
DaysInMonth(y, m) ==
    CASE m = 1 -> IF IsLeap(y) THEN 29 ELSE 28
      [] m \in {3, 5, 8, 10} -> 30
      [] OTHER -> 31

\* the day number of 1 January of year y
RECURSIVE DayFromYear(_)
DayFromYear(y) ==
    IF y = EpochYear THEN 0
    ELSE IF y > EpochYear THEN DayFromYear(y - 1) + DaysInYear(y - 1)
    ELSE DayFromYear(y + 1) - DaysInYear(y)

RECURSIVE DaysBeforeMonth(_, _)
DaysBeforeMonth(y, m) ==
    IF m = 0 THEN 0 ELSE DaysBeforeMonth(y, m - 1) + DaysInMonth(y, m - 1)

\* floor division and its remainder, also of negative numbers
FloorDiv(a, b) == IF a >= 0 THEN a \div b ELSE 0 - ((b - 1 - a) \div b)
FloorMod(a, b) == a - b * FloorDiv(a, b)

Day(t) == FloorDiv(t, MinPerDay)
TimeWithinDay(t) == FloorMod(t, MinPerDay)

RECURSIVE YearFromDay(_, _)
YearFromDay(d, y) ==
    IF d < DayFromYear(y) THEN YearFromDay(d, y - 1)
    ELSE IF d >= DayFromYear(y + 1) THEN YearFromDay(d, y + 1)
    ELSE y

YearFromTime(t) == YearFromDay(Day(t), EpochYear)

RECURSIVE MonthFromDayInYear(_, _, _)
MonthFromDayInYear(y, m, d) ==
    IF d < DaysBeforeMonth(y, m + 1) THEN m ELSE MonthFromDayInYear(y, m + 1, d)

MonthFromTime(t) ==
    LET y == YearFromTime(t) IN MonthFromDayInYear(y, 0, Day(t) - DayFromYear(y))

DateFromTime(t) ==
    LET y == YearFromTime(t)
    IN  Day(t) - DayFromYear(y) - DaysBeforeMonth(y, MonthFromTime(t)) + 1

\* the day number of (year, month, date); month and date may lie outside
\* their ranges and carry over
MakeDay(year, month, date) ==
    LET ym == year + FloorDiv(month, 12)
        mn == FloorMod(month, 12)
    IN  DayFromYear(ym) + DaysBeforeMonth(ym, mn) + date - 1

MakeDate(day, time) == day * MinPerDay + time

(***************************************************************************)
(* The server's time zone: the offset (minutes east of UTC) in force from  *)
(* the start, and the transitions to another offset, each at a UTC         *)
(* instant.  New York: EST until 2024-03-10T07:00Z, EDT until              *)
(* 2024-11-03T06:00Z, EST after.                                           *)
(***************************************************************************)
Zones ==
    [ UTC     |-> [base |-> 0, transitions |-> <<>>],
      Kolkata |-> [base |-> 330, transitions |-> <<>>],
      NewYork |-> [base |-> -300,
                   transitions |->
                     << [at |-> MakeDate(MakeDay(2024, 2, 10), 7 * 60), offset |-> -240],
                        [at |-> MakeDate(MakeDay(2024, 10, 3), 6 * 60), offset |-> -300] >>] ]

ZoneNames == DOMAIN Zones

RECURSIVE OffsetFrom(_, _, _, _)
OffsetFrom(trs, i, cur, t) ==
    IF i > Len(trs) \/ t < trs[i].at THEN cur
    ELSE OffsetFrom(trs, i + 1, trs[i].offset, t)

\* LocalTZA(t, true): the offset in force at the UTC instant t
OffsetAt(z, t) == OffsetFrom(Zones[z].transitions, 1, Zones[z].base, t)

ZoneOffsets(z) ==
    {Zones[z].base} \cup {Zones[z].transitions[i].offset : i \in DOMAIN Zones[z].transitions}

SetMax(S) == CHOOSE x \in S : \A y \in S : y <= x

LocalTime(z, t) == t + OffsetAt(z, t)

\* UTC(t): a local time that occurs twice (clocks set back) or never (clocks
\* set forward) is read with the offset in force before the transition
UTC(z, tl) ==
    LET valid == {o \in ZoneOffsets(z) : OffsetAt(z, tl - o) = o}
    IN  IF valid # {} THEN tl - SetMax(valid)
        ELSE tl - OffsetAt(z, tl - SetMax(ZoneOffsets(z)))

\* Date.prototype.getDate()
GetDate(z, d) == DateFromTime(LocalTime(z, d.t))

\* Date.prototype.setDate(dt): the new time value
SetDate(z, d, dt) ==
    IF d.nan THEN NaNDate
    ELSE LET t == LocalTime(z, d.t)
         IN  DateOf(UTC(z, MakeDate(MakeDay(YearFromTime(t), MonthFromTime(t), dt),
                                    TimeWithinDay(t))))

\* Date.prototype.toISOString(), of a valid date: the UTC fields
ToISOString(d) ==
    [year |-> YearFromTime(d.t), month |-> MonthFromTime(d.t) + 1,
     day |-> DateFromTime(d.t),
     hour |-> TimeWithinDay(d.t) \div 60, minute |-> TimeWithinDay(d.t) % 60]

\* toISOString().split('T')[0]: the text before the 'T', YYYY-MM-DD
IsoDatePart(iso) == [year |-> iso.year, month |-> iso.month, day |-> iso.day]

\* a <= b on Dates: the comparison of the time values, false when either is NaN
DateLe(a, b) == ~a.nan /\ ~b.nan /\ a.t <= b.t

(***************************************************************************)
(* Numbers that come from query strings (latitude, longitude, day count):  *)
(* NaN, or a decimal value counted in ten-thousandths.                     *)
(***************************************************************************)
NaN == [nan |-> TRUE]
Num(v) == [nan |-> FALSE, v |-> v]
Scale == 10^4

\* Number.prototype.toFixed(4)
ToFixed4(x) ==
    IF x.nan THEN "NaN"
    ELSE [neg |-> x.v < 0,
          int |-> (IF x.v < 0 THEN 0 - x.v ELSE x.v) \div Scale,
          frac |-> (IF x.v < 0 THEN 0 - x.v ELSE x.v) % Scale]

\* the text a Number takes inside a template literal
NumberToString(x) == IF x.nan THEN "NaN" ELSE [value |-> x.v]

\* the j-th Math.random() of an invocation whose first draw is sample `seed`
Rand(seed, j) == MathRandom((seed + j) % (MaxDraw + 1))

(***************************************************************************)
(* SolarService                                                            *)
(***************************************************************************)

\* const baseIrradiance = 800 + Math.random() * 400, for the draw r
BaseIrradianceWide(r) == FAdd(FFromInt(700), FMul(r, FFromInt(500)))
BaseIrradiance(r) == FAdd(FFromInt(800), FMul(r, FFromInt(400)))

\* const efficiency = 85 + Math.random() * 10, for the draw r
Efficiency(r) == FAdd(FFromInt(85), FMul(r, FFromInt(10)))

\* baseIrradiance * (efficiency / 100)
PredictedOutput(baseIrradiance, efficiency) ==
    FMul(baseIrradiance, FDivInt(efficiency, 100))

\* baseIrradiance * 8 * (efficiency / 100) / 1000, evaluated left to right
DailyGenerationNoPercent(baseIrradiance, efficiency) ==
    FDivInt(FMul(FMul(baseIrradiance, FFromInt(8)), efficiency), 1000)
DailyGeneration(baseIrradiance, efficiency) ==
    FDivInt(FMul(FMul(baseIrradiance, FFromInt(8)), FDivInt(efficiency, 100)), 1000)

\* baseIrradiance * 8 * 30 * (efficiency / 100) / 1000
MonthlyGeneration(baseIrradiance, efficiency) ==
    FDivInt(FMul(FMul(FMul(baseIrradiance, FFromInt(8)), FFromInt(30)),
                 FDivInt(efficiency, 100)), 1000)

\* baseIrradiance * 8 * 365 * (efficiency / 100) / 1000
YearlyGeneration(baseIrradiance, efficiency) ==
    FDivInt(FMul(FMul(FMul(baseIrradiance, FFromInt(8)), FFromInt(365)),
                 FDivInt(efficiency, 100)), 1000)

\* getSolarIrradiance(lat, lon): d[1..4] are its four Math.random() draws in
\* the order of evaluation, now the instant of new Date()
GetSolarIrradiance(lat, lon, d, now) ==
    LET baseIrradiance == BaseIrradiance(MathRandom(d[1]))
        efficiency     == Efficiency(MathRandom(d[2]))
    IN  [location          |-> <<ToFixed4(lat), ToFixed4(lon)>>,
         coordinates       |-> <<lat, lon>>,
         solarIrradiance   |-> baseIrradiance,
         predictedOutput   |-> PredictedOutput(baseIrradiance, efficiency),
         efficiency        |-> efficiency,
         dailyGeneration   |-> DailyGeneration(baseIrradiance, efficiency),
         monthlyGeneration |-> MonthlyGeneration(baseIrradiance, efficiency),
         yearlyGeneration  |-> YearlyGeneration(baseIrradiance, efficiency),
         peakHours         |-> FAdd(FFromInt(6), FMul(MathRandom(d[3]), FFromInt(4))),
         cloudCoverImpact  |-> FMul(MathRandom(d[4]), FFromInt(30)),
         timestamp         |-> ToISOString(DateOf(now))]

\* one entry of generatePredictions: the loop body for index i
PredictionEntry(z, now, seed, i) ==
    LET currentDate        == DateOf(now)
        futureDate         == SetDate(z, currentDate, GetDate(z, currentDate) + i)
        baseIrradiance     == FAdd(FFromInt(700), FMul(Rand(seed, 5 * i), FFromInt(500)))
        cloudCover         == FMul(Rand(seed, 5 * i + 1), FFromInt(80))
        adjustedIrradiance ==
            FMul(baseIrradiance, FSub(FFromInt(1), FDivInt(cloudCover, 200)))
    IN  [date                |-> IsoDatePart(ToISOString(futureDate)),
         predictedIrradiance |-> adjustedIrradiance,
         predictedOutput     |-> FMul(adjustedIrradiance, FDec(85, 100)),
         confidence          |->
             FAdd(FDec(7, 10), FMul(Rand(seed, 5 * i + 2), FDec(3, 10))),
         weatherFactors      |->
             [cloudCover  |-> cloudCover,
              humidity    |-> FAdd(FFromInt(40), FMul(Rand(seed, 5 * i + 3), FFromInt(40))),
              temperature |-> FAdd(FFromInt(20), FMul(Rand(seed, 5 * i + 4), FFromInt(15)))]]

\* generatePredictions(lat, lon, days): the loop runs for i = 0, 1, ... while
\* i < days, which is never true of NaN
GeneratePredictions(z, now, lat, lon, days, seed) ==
    LET n == IF days.nan \/ days.v <= 0 THEN 0 ELSE (days.v + Scale - 1) \div Scale
    IN  [i \in 1..n |-> PredictionEntry(z, now, seed, i - 1)]

\* the per-region factors of analyzeRegion
RegionFactors ==
    [ city  |-> [efficiency |-> FDec(8, 10)],
      hill  |-> [efficiency |-> FDec(95, 100)],
      rural |-> [efficiency |-> FDec(9, 10)] ]

Regions == DOMAIN RegionFactors

\* analyzeRegion(region, coordinates)
AnalyzeRegionOneFactor(region, coordinates) ==
    [region            |-> region,
     coordinates       |-> coordinates,
     averageEfficiency |-> RegionFactors["rural"].efficiency,
     totalSites        |-> Len(coordinates),
     estimatedCapacity |-> Len(coordinates) * 100,
     analysis          |-> <<"Optimized for ", region, " conditions">>]
AnalyzeRegion(region, coordinates) ==
    [region            |-> region,
     coordinates       |-> coordinates,
     averageEfficiency |-> RegionFactors[region].efficiency,
     totalSites        |-> Len(coordinates),
     estimatedCapacity |-> Len(coordinates) * 100,
     analysis          |-> <<"Optimized for ", region, " conditions">>]

(***************************************************************************)
(* WeatherService.getHistoricalWeather                                     *)
(***************************************************************************)

\* The Date objects of one invocation: cells holds their time values,
\* startDate and endDate name the caller's two objects.  `new Date(startDate)`
\* allocates a third object with startDate's time value for currentDate.
NewDateCopy(frame) ==
    [frame EXCEPT !.cells = Append(@, @[frame.startDate]),
                  !.currentDate = Len(frame.cells) + 1]

\* the record pushed for the day currentDate, the k-th of the invocation
HistoricalRecord(lat, lon, seed, k, currentDate) ==
    [location        |-> <<NumberToString(lat), NumberToString(lon)>>,
     temperature     |-> FAdd(FFromInt(20), FMul(Rand(seed, 9 * k), FFromInt(15))),
     humidity        |-> FAdd(FFromInt(40), FMul(Rand(seed, 9 * k + 1), FFromInt(40))),
     pressure        |-> FAdd(FFromInt(1013), FMul(Rand(seed, 9 * k + 2), FFromInt(20))),
     windSpeed       |-> FMul(Rand(seed, 9 * k + 3), FFromInt(10)),
     windDirection   |-> FMul(Rand(seed, 9 * k + 4), FFromInt(360)),
     cloudCover      |-> FMul(Rand(seed, 9 * k + 5), FFromInt(100)),
     visibility      |-> FAdd(FFromInt(5), FMul(Rand(seed, 9 * k + 6), FFromInt(15))),
     uvIndex         |-> FMul(Rand(seed, 9 * k + 7), FFromInt(11)),
     solarIrradiance |-> FAdd(FFromInt(400), FMul(Rand(seed, 9 * k + 8), FFromInt(600))),
     timestamp       |-> ToISOString(currentDate)]

\* while (currentDate <= endDate) { push; currentDate.setDate(getDate() + 1) }
RECURSIVE HistoricalLoop(_, _, _, _, _, _)
HistoricalLoop(z, frame, lat, lon, seed, mockData) ==
    LET currentDate == frame.cells[frame.currentDate]
    IN  IF DateLe(currentDate, frame.cells[frame.endDate])
        THEN HistoricalLoop(
                 z,
                 [frame EXCEPT !.cells[frame.currentDate] =
                      SetDate(z, currentDate, GetDate(z, currentDate) + 1)],
                 lat, lon, seed,
                 Append(mockData,
                        HistoricalRecord(lat, lon, seed, Len(mockData), currentDate)))
        ELSE [mockData |-> mockData, frame |-> frame]

\* getHistoricalWeather(lat, lon, startDate, endDate): the records returned and
\* the Date objects as the invocation leaves them
GetHistoricalWeather(z, lat, lon, startDate, endDate, seed) ==
    HistoricalLoop(z,
                   NewDateCopy([cells |-> <<startDate, endDate>>,
                                startDate |-> 1, endDate |-> 2, currentDate |-> 0]),
                   lat, lon, seed, <<>>)

(***************************************************************************)
(* The service methods on their own: an invocation is drawn with its       *)
(* arguments and its environment (instant, time zone, random draws), and   *)
(* one step returns its result.                                            *)
(***************************************************************************)
MaxDays == 3
MaxSpan == 3
MaxSites == 3

Whole(n) == Num(n * Scale)

Latitudes == {NaN, Num(286139)}
Longitudes == {Num(772090)}

\* instants around a year end, a leap day and the two New York transitions
SampleDays ==
    {MakeDay(2023, 11, 30), MakeDay(2024, 1, 28), MakeDay(2024, 2, 9), MakeDay(2024, 10, 2)}
SampleMinutes == {30, 5 * 60 + 30, 7 * 60 + 30, 19 * 60 + 30, 23 * 60 + 30}
Instants == {MakeDate(d, m) : d \in SampleDays, m \in SampleMinutes}

SolarCalls ==
    {[op |-> "getSolarIrradiance", args |-> [lat |-> la, lon |-> lo],
      world |-> [now |-> MakeDate(MakeDay(2024, 2, 9), 30), zone |-> "UTC", draws |-> d]] :
        la \in Latitudes, lo \in Longitudes, d \in [1..4 -> Draws]}

PredictionCalls ==
    {[op |-> "generatePredictions", args |-> [lat |-> la, lon |-> lo, days |-> n],
      world |-> [now |-> t, zone |-> z, draws |-> sd]] :
        la \in {Num(286139)}, lo \in Longitudes,
        n \in {NaN} \cup {Whole(k) : k \in -1..MaxDays},
        t \in Instants, z \in ZoneNames, sd \in {0}}

\* start and end are dates at 00:00Z, as `new Date("YYYY-MM-DD")` gives them,
\* dates with a time of day, or Invalid Dates
HistoricalRanges ==
    {[startDate |-> DateOf(MakeDate(d, ms)), endDate |-> DateOf(MakeDate(d + k, me))] :
        d \in SampleDays, k \in -1..MaxSpan, ms \in {0, 12 * 60}, me \in {0, 6 * 60}}
    \cup {[startDate |-> NaNDate, endDate |-> DateOf(0)],
          [startDate |-> DateOf(0), endDate |-> NaNDate]}

HistoricalCalls ==
    {[op |-> "getHistoricalWeather",
      args |-> [lat |-> la, lon |-> lo, startDate |-> rg.startDate, endDate |-> rg.endDate],
      world |-> [now |-> 0, zone |-> z, draws |-> 0]] :
        la \in {Num(286139)}, lo \in Longitudes, z \in ZoneNames, rg \in HistoricalRanges}

Coordinates == {<<Num(286000), Num(772000)>>, <<Num(290000), Num(780000)>>}

RECURSIVE SeqsUpTo(_, _)
SeqsUpTo(S, n) ==
    IF n = 0 THEN {<<>>}
    ELSE LET shorter == SeqsUpTo(S, n - 1)
         IN  shorter \cup {Append(q, x) : q \in {p \in shorter : Len(p) = n - 1}, x \in S}

RegionCalls ==
    {[op |-> "analyzeRegion", args |-> [region |-> rg, coordinates |-> cs],
      world |-> [now |-> 0, zone |-> "UTC", draws |-> 0]] :
        rg \in Regions, cs \in SeqsUpTo(Coordinates, MaxSites)}

(***************************************************************************)
(* The process: its configuration and the module-level service instance.   *)
(***************************************************************************)
MaxRequests == 2
Slots == 1..MaxRequests

ApiKeys == {"", "key"}

\* new WeatherService(): apiKey = process.env.OPENWEATHER_API_KEY || ''
WeatherServiceNew(e) ==
    [apiKey  |-> e.OPENWEATHER_API_KEY,
     baseUrl |-> "https://api.openweathermap.org/data/2.5"]

\* no cron task registered, nothing logged, no call made by a task
NotScheduled == [tasks |-> <<>>, log |-> <<>>, calls |-> <<>>, upstream |-> <<>>]

\* a slot no request has come to yet
IdleRequest == [pc |-> "idle"]

\* the process after start-up, for the configuration e
Started(e) ==
    /\ env = e
    /\ weatherService = WeatherServiceNew(e)
    /\ requests = [r \in Slots |-> IdleRequest]
    /\ scheduler = NotScheduled

\* the process idle, and an invocation drawn from `calls` about to run
InitCall(calls) ==
    /\ Started([TZ |-> "UTC", OPENWEATHER_API_KEY |-> ""])
    /\ clock = 0
    /\ \E c \in calls :
           call = [op |-> c.op, args |-> c.args, world |-> c.world,
                   phase |-> "called", result |-> <<>>, again |-> <<>>]

Returned(c, op) == c.op = op /\ c.phase = "returned"

ReturnSolarIrradiance ==
    /\ call.op = "getSolarIrradiance" /\ call.phase = "called"
    /\ call' = [call EXCEPT
           !.phase = "returned",
           !.result = GetSolarIrradiance(call.args.lat, call.args.lon,
                                         call.world.draws, call.world.now)]
    /\ UNCHANGED <<requests, clock, env, weatherService, scheduler>>

ReturnPredictions ==
    /\ call.op = "generatePredictions" /\ call.phase = "called"
    /\ call' = [call EXCEPT
           !.phase = "returned",
           !.result = GeneratePredictions(call.world.zone, call.world.now, call.args.lat,
                                          call.args.lon, call.args.days, call.world.draws)]
    /\ UNCHANGED <<requests, clock, env, weatherService, scheduler>>

ReturnHistoricalWeather ==
    /\ call.op = "getHistoricalWeather" /\ call.phase = "called"
    /\ call' = [call EXCEPT
           !.phase = "returned",
           !.result = GetHistoricalWeather(call.world.zone, call.args.lat, call.args.lon,
                                           call.args.startDate, call.args.endDate,
                                           call.world.draws)]
    /\ UNCHANGED <<requests, clock, env, weatherService, scheduler>>

ReturnAnalyzeRegion ==
    /\ call.op = "analyzeRegion" /\ call.phase = "called"
    /\ call' = [call EXCEPT
           !.phase = "returned",
           !.result = AnalyzeRegion(call.args.region, call.args.coordinates)]
    /\ UNCHANGED <<requests, clock, env, weatherService, scheduler>>

\* a second invocation of analyzeRegion with the same arguments
RepeatAnalyzeRegion ==
    /\ Returned(call, "analyzeRegion") /\ call.again = <<>>
    /\ call' = [call EXCEPT
           !.again = <<AnalyzeRegion(call.args.region, call.args.coordinates)>>]
    /\ UNCHANGED <<requests, clock, env, weatherService, scheduler>>

SpecSolar == InitCall(SolarCalls) /\ [][ReturnSolarIrradiance]_vars

SpecPredictions == InitCall(PredictionCalls) /\ [][ReturnPredictions]_vars

SpecHistorical == InitCall(HistoricalCalls) /\ [][ReturnHistoricalWeather]_vars

NextRegion == ReturnAnalyzeRegion \/ RepeatAnalyzeRegion

SpecRegion == InitCall(RegionCalls) /\ [][NextRegion]_vars

(***************************************************************************)
(* Query strings.  req.query gives each parameter as undefined or as a     *)
(* string, here a sequence of characters.                                  *)
(***************************************************************************)
Undefined == [present |-> FALSE, text |-> <<>>]
Text(s) == [present |-> TRUE, text |-> s]

\* !v: undefined and the empty string are falsy, every other string is truthy
FalsyOnlyUndefined(v) == ~v.present
Falsy(v) == ~v.present \/ v.text = <<>>

DigitChars == <<"0", "1", "2", "3", "4", "5", "6", "7", "8", "9">>
IsDigit(c) == \E i \in 1..10 : DigitChars[i] = c
DigitVal(c) == (CHOOSE i \in 1..10 : DigitChars[i] = c) - 1

\* the number of digits of s from position i on
RECURSIVE DigitRun(_, _)
DigitRun(s, i) == IF i <= Len(s) /\ IsDigit(s[i]) THEN 1 + DigitRun(s, i + 1) ELSE 0

\* the value of the n digits of s from position i on
RECURSIVE DigitsValue(_, _, _)
DigitsValue(s, i, n) ==
    IF n = 0 THEN 0 ELSE DigitsValue(s, i, n - 1) * 10 + DigitVal(s[i + n - 1])

HasSign(s) == s # <<>> /\ s[1] \in {"-", "+"}

\* parseFloat(s): the longest prefix that is a decimal literal (sign, digits,
\* point, digits), NaN when there is none; digits after the fourth decimal
\* place are below the model's resolution (the sampled texts have none, nor an
\* exponent)
ParseFloat(s) ==
    LET i1    == IF HasSign(s) THEN 2 ELSE 1
        nInt  == DigitRun(s, i1)
        i2    == i1 + nInt
        nFrac == IF i2 <= Len(s) /\ s[i2] = "." THEN DigitRun(s, i2 + 1) ELSE 0
        kept  == IF nFrac > 4 THEN 4 ELSE nFrac
        mag   == DigitsValue(s, i1, nInt) * Scale
                 + DigitsValue(s, i2 + 1, kept) * 10^(4 - kept)
    IN  IF nInt = 0 /\ nFrac = 0 THEN NaN
        ELSE Num(IF HasSign(s) /\ s[1] = "-" THEN 0 - mag ELSE mag)

\* parseInt(s): sign and leading digits, NaN when there is no digit
ParseInt(s) ==
    LET i1 == IF HasSign(s) THEN 2 ELSE 1
        n  == DigitRun(s, i1)
        mag == DigitsValue(s, i1, n) * Scale
    IN  IF n = 0 THEN NaN
        ELSE Num(IF HasSign(s) /\ s[1] = "-" THEN 0 - mag ELSE mag)

\* new Date(s) for a date-only text YYYY-MM-DD: 00:00 UTC of that day; any
\* other text of the model is an Invalid Date
DateParse(s) ==
    IF /\ Len(s) = 10
       /\ DigitRun(s, 1) = 4 /\ s[5] = "-"
       /\ DigitRun(s, 6) = 2 /\ s[8] = "-"
       /\ DigitRun(s, 9) = 2
    THEN LET y == DigitsValue(s, 1, 4)
             mo == DigitsValue(s, 6, 2)
             d == DigitsValue(s, 9, 2)
         IN  IF mo \in 1..12 /\ d >= 1 /\ d <= DaysInMonth(y, mo - 1)
             THEN DateOf(MakeDate(MakeDay(y, mo - 1, d), 0))
             ELSE NaNDate
    ELSE NaNDate

\* const { days = 7 } = req.query; parseInt(days as string)
DaysArgument(days) == IF days.present THEN ParseInt(days.text) ELSE Whole(7)

(***************************************************************************)
(* Requests.  A request is an endpoint and a query; the samples vary one   *)
(* parameter at a time from a well-formed query.                           *)
(***************************************************************************)
LatText == <<"2", "8", ".", "6", "1", "3", "9">>
LonText == <<"7", "7", ".", "2", "0", "9", "0">>
NotANumber == <<"a", "b", "c">>
NotADate == <<"s", "o", "o", "n">>
March8 == <<"2", "0", "2", "4", "-", "0", "3", "-", "0", "8">>
March9 == <<"2", "0", "2", "4", "-", "0", "3", "-", "0", "9">>
March11 == <<"2", "0", "2", "4", "-", "0", "3", "-", "1", "1">>

NoQuery ==
    [lat |-> Undefined, lon |-> Undefined, days |-> Undefined,
     startDate |-> Undefined, endDate |-> Undefined,
     start |-> Undefined, end |-> Undefined]

Located == [NoQuery EXCEPT !.lat = Text(LatText), !.lon = Text(LonText)]
Ranged == [Located EXCEPT !.startDate = Text(March9), !.endDate = Text(March11)]

\* README.md: GET /api/weather/historical?lat=28.6139&lon=77.2090
\*                                        &start=2023-01-01&end=2023-01-31
ReadmeHistorical ==
    [Located EXCEPT
        !.start = Text(<<"2", "0", "2", "3", "-", "0", "1", "-", "0", "1">>),
        !.end   = Text(<<"2", "0", "2", "3", "-", "0", "1", "-", "3", "1">>)]

Vary(q, name, values) == {[q EXCEPT ![name] = v] : v \in values}

LocationQueries(q) ==
    {q, NoQuery}
    \cup Vary(q, "lat", {Undefined, Text(<<>>), Text(NotANumber)})
    \cup Vary(q, "lon", {Undefined, Text(<<>>), Text(NotANumber)})

DaysQueries ==
    LocationQueries(Located)
    \cup Vary(Located, "days", {Text(<<"2">>), Text(<<>>), Text(NotANumber)})

HistoricalQueries ==
    LocationQueries(Ranged)
    \cup Vary(Ranged, "startDate", {Undefined, Text(<<>>), Text(NotADate)})
    \cup Vary(Ranged, "endDate", {Undefined, Text(<<>>), Text(NotADate), Text(March8)})
    \cup {ReadmeHistorical}

(***************************************************************************)
(* The weather provider.  A reply is a rejection of the axios promise or a *)
(* response whose data may lack the members the service reads; an absent   *)
(* member is <<>>, a present one <<x>>.  Instants are in the model's       *)
(* minutes.                                                                *)
(***************************************************************************)
Missing == <<>>
Having(x) == <<x>>

Rejection == [ok |-> FALSE, error |-> [message |-> "Request failed with status code 401"]]
Response(data) == [ok |-> TRUE, data |-> data]

TypeError == [message |-> "Cannot read properties of undefined"]

WeatherData ==
    [name       |-> "Delhi",
     sys        |-> Having([country |-> "IN"]),
     main       |-> Having([temp |-> 31, humidity |-> 40, pressure |-> 1008]),
     wind       |-> Having([speed |-> 3, deg |-> 270]),
     clouds     |-> Having([all |-> 20]),
     visibility |-> 10000]

WeatherReplies ==
    {Rejection, Response(WeatherData),
     Response([WeatherData EXCEPT !.wind = Missing]),
     Response([WeatherData EXCEPT !.sys = Missing])}

ForecastItem(k) ==
    [main   |-> Having([temp |-> 30 + k, humidity |-> 40, pressure |-> 1008]),
     wind   |-> Having([speed |-> 3, deg |-> 270]),
     clouds |-> Having([all |-> 100]),
     dt     |-> Having(MakeDate(MakeDay(2024, 10, 3), 180 * k))]

ForecastData ==
    [city |-> Having([name |-> "Delhi", country |-> "IN"]),
     list |-> Having(<<ForecastItem(0), ForecastItem(1)>>)]

ForecastReplies ==
    {Rejection, Response(ForecastData),
     Response([ForecastData EXCEPT
                  !.list = Having(<<ForecastItem(0), [ForecastItem(1) EXCEPT !.main = Missing]>>)]),
     Response([ForecastData EXCEPT !.list = Missing])}

(***************************************************************************)
(* WeatherService: the two methods that call the provider                  *)
(***************************************************************************)

\* Math.PI
MathPI == [m |-> <<11544, 10376, 2029, 201>>, e |-> 0 - 51]

\* Math.abs(x) of a parsed number that is not NaN, as the Number it denotes
MathAbs(x) == FDec(IF x.v < 0 THEN 0 - x.v ELSE x.v, Scale)

\* Math.cos at the angles of the sampled latitudes (0, 12, 28.6139, 45, 60,
\* 89.9999 and 90 degrees): the Number nearest to the cosine
CosTable ==
    << [x   |-> FZero,
        cos |-> [m |-> <<0, 0, 0, 128>>, e |-> 0 - 52]],
       [x   |-> [m |-> <<27605, 26359, 15271, 214>>, e |-> 0 - 55],
        cos |-> [m |-> <<128, 25844, 13296, 250>>, e |-> 0 - 53]],
       [x   |-> [m |-> <<10576, 6523, 22815, 255>>, e |-> 0 - 54],
        cos |-> [m |-> <<2487, 20227, 24048, 224>>, e |-> 0 - 53]],
       [x   |-> [m |-> <<11544, 10376, 2029, 201>>, e |-> 0 - 53],
        cos |-> [m |-> <<15309, 19710, 633, 181>>, e |-> 0 - 53]],
       [x   |-> [m |-> <<29541, 28762, 1352, 134>>, e |-> 0 - 52],
        cos |-> [m |-> <<1, 0, 0, 128>>, e |-> 0 - 53]],
       [x   |-> [m |-> <<4143, 32644, 2021, 201>>, e |-> 0 - 52],
        cos |-> [m |-> <<22833, 7464, 8327, 234>>, e |-> 0 - 72]],
       [x   |-> [m |-> <<11544, 10376, 2029, 201>>, e |-> 0 - 52],
        cos |-> [m |-> <<23559, 26152, 6296, 141>>, e |-> 0 - 106]] >>

MathCos(x) == CosTable[CHOOSE k \in 1..Len(CosTable) : CosTable[k].x = x].cos

\* calculateSolarIrradiance(cloudCover, latitude), for a cloud cover that is a
\* whole percentage from 0 to 100: NaN when the latitude is NaN, since
\* Math.abs, the product, Math.cos and the final product all pass NaN on
CalculateSolarIrradiance(cloudCover, latitude) ==
    IF latitude.nan THEN NaN
    ELSE LET baseIrradiance    == FFromInt(1000)
             cloudReduction    == FDivInt(FSub(FFromInt(100), FFromInt(cloudCover)), 100)
             latitudeReduction == MathCos(FDivInt(FMul(MathAbs(latitude), MathPI), 180))
         IN  FMul(FMul(baseIrradiance, cloudReduction), latitudeReduction)

\* x || 0 for an optional number
OrZero(member, field) == IF member = Missing THEN 0 ELSE member[1][field]

\* the catch block of a service method: the cause is logged, and a new Error
\* carrying the method's fixed text is thrown
Rethrow(cause, text) == [ok |-> FALSE, error |-> cause]
ServiceCatch(cause, text) == [ok |-> FALSE, error |-> [message |-> text]]

\* getCurrentWeather up to its await: the axios request, and `this` after it
GetCurrentWeatherRemembering(this, lat, lon) ==
    [this    |-> [this EXCEPT !.apiKey = ""],
     request |-> [url    |-> <<this.baseUrl, "/weather">>,
                  params |-> [lat |-> lat, lon |-> lon, appid |-> this.apiKey,
                              units |-> "metric"]]]
GetCurrentWeather(this, lat, lon) ==
    [this    |-> this,
     request |-> [url    |-> <<this.baseUrl, "/weather">>,
                  params |-> [lat |-> lat, lon |-> lon, appid |-> this.apiKey,
                              units |-> "metric"]]]

\* reading data.sys.country, data.main.temp or data.clouds.all of an absent
\* member throws
CurrentWeatherThrows(data) ==
    data.sys = Missing \/ data.main = Missing \/ data.clouds = Missing

CurrentWeatherRecord(data, lat, now) ==
    [location        |-> <<data.name, ", ", data.sys[1].country>>,
     temperature     |-> data.main[1].temp,
     humidity        |-> data.main[1].humidity,
     pressure        |-> data.main[1].pressure,
     windSpeed       |-> OrZero(data.wind, "speed"),
     windDirection   |-> OrZero(data.wind, "deg"),
     cloudCover      |-> data.clouds[1].all,
     visibility      |-> data.visibility \div 1000,
     uvIndex         |-> 0,
     solarIrradiance |-> CalculateSolarIrradiance(data.clouds[1].all, lat),
     timestamp       |-> ToISOString(DateOf(now))]

\* getCurrentWeather from its await on: how its promise settles
CurrentWeatherSettles(reply, lat, now) ==
    IF ~reply.ok THEN ServiceCatch(reply.error, "Failed to fetch weather data")
    ELSE IF CurrentWeatherThrows(reply.data)
         THEN ServiceCatch(TypeError, "Failed to fetch weather data")
         ELSE [ok |-> TRUE, value |-> CurrentWeatherRecord(reply.data, lat, now)]

\* days * 8
Times8(days) == IF days.nan THEN NaN ELSE Num(days.v * 8)

\* getWeatherForecast up to its await
GetWeatherForecast(this, lat, lon, days) ==
    [this    |-> this,
     request |-> [url    |-> <<this.baseUrl, "/forecast">>,
                  params |-> [lat |-> lat, lon |-> lon, appid |-> this.apiKey,
                              units |-> "metric", cnt |-> Times8(days)]]]

\* the callback of list.map throws on an item without main or clouds, on a
\* reply without city, and in toISOString when the item has no dt
ForecastItemThrows(data, item) ==
    \/ data.city = Missing
    \/ item.main = Missing
    \/ item.clouds = Missing
    \/ item.dt = Missing

ForecastThrows(data) ==
    \/ data.list = Missing
    \/ \E k \in 1..Len(data.list[1]) : ForecastItemThrows(data, data.list[1][k])

ForecastRecord(data, item, lat) ==
    [location        |-> <<data.city[1].name, ", ", data.city[1].country>>,
     temperature     |-> item.main[1].temp,
     humidity        |-> item.main[1].humidity,
     pressure        |-> item.main[1].pressure,
     windSpeed       |-> OrZero(item.wind, "speed"),
     windDirection   |-> OrZero(item.wind, "deg"),
     cloudCover      |-> item.clouds[1].all,
     visibility      |-> 10,
     uvIndex         |-> 0,
     solarIrradiance |-> CalculateSolarIrradiance(item.clouds[1].all, lat),
     timestamp       |-> ToISOString(DateOf(item.dt[1]))]

\* getWeatherForecast from its await on
ForecastSettles(reply, lat) ==
    IF ~reply.ok THEN ServiceCatch(reply.error, "Failed to fetch weather forecast")
    ELSE IF ForecastThrows(reply.data)
         THEN ServiceCatch(TypeError, "Failed to fetch weather forecast")
         ELSE [ok |-> TRUE,
               value |-> [k \in 1..Len(reply.data.list[1]) |->
                             ForecastRecord(reply.data, reply.data.list[1][k], lat)]]

(***************************************************************************)
(* The methods that call no provider run to their end inside the handler's *)
(* call.  Their result is carried as the invocation that yields it, and    *)
(* ResultOf gives the value.                                               *)
(***************************************************************************)
Invocation(op, args, now, zone, draws) ==
    [op |-> op, args |-> args, world |-> [now |-> now, zone |-> zone, draws |-> draws]]

ResultOf(c) ==
    CASE c.op = "getSolarIrradiance" ->
             GetSolarIrradiance(c.args.lat, c.args.lon, c.world.draws, c.world.now)
      [] c.op = "generatePredictions" ->
             GeneratePredictions(c.world.zone, c.world.now, c.args.lat, c.args.lon,
                                 c.args.days, c.world.draws)
      [] c.op = "getHistoricalWeather" ->
             GetHistoricalWeather(c.world.zone, c.args.lat, c.args.lon, c.args.startDate,
                                  c.args.endDate, c.world.draws).mockData

\* the four draws of getSolarIrradiance, from the request's stream of draws
SolarDraws(seed) == [j \in 1..4 |-> (seed + j - 1) % (MaxDraw + 1)]

(***************************************************************************)
(* The HTTP server: requests arrive, each handler runs to its first await, *)
(* the provider replies in any order, and each handler resumes with the    *)
(* outcome of its own call.                                                *)
(***************************************************************************)
MaxTicks == 1

\* 2024-11-02T23:30Z; the clock moves in hours
StartInstant == MakeDate(MakeDay(2024, 10, 2), 23 * 60 + 30)
Hour == MinPerDay \div 24

Seeds == {0, MaxDraw}

\* the configurations of the process: no API key in UTC, a key in a zone with
\* daylight saving
Environments ==
    {[TZ |-> "UTC", OPENWEATHER_API_KEY |-> ""],
     [TZ |-> "NewYork", OPENWEATHER_API_KEY |-> "key"]}

NoCall == [op |-> "none", phase |-> "none"]

\* a request as it reaches its handler
Arrived(endpoint, query, seed) ==
    [pc |-> "running", endpoint |-> endpoint, query |-> query, draws |-> seed,
     calls |-> <<>>, upstream |-> <<>>, reply |-> <<>>, reads |-> <<>>,
     settled |-> <<>>, responses |-> <<>>]

\* res.status(status).json(body)
RespondAndGoOn(req, status, body) ==
    [req EXCEPT !.responses = Append(@, [status |-> status, body |-> body])]
Respond(req, status, body) ==
    [req EXCEPT !.pc = "done",
                !.responses = Append(@, [status |-> status, body |-> body])]

\* `await weatherService.method(...)` with the provider called
AwaitUpstream(req, op, args, sent) ==
    [req EXCEPT !.pc = "awaitUpstream",
                !.calls = Append(@, [op |-> op, args |-> args]),
                !.upstream = Append(@, sent.request)]

\* `await service.method(...)` of a method that has run to its end
AwaitReturned(req, c, reads) ==
    [req EXCEPT !.pc = "awaitService",
                !.calls = Append(@, [op |-> c.op, args |-> c.args]),
                !.reads = @ \o reads,
                !.settled = <<[ok |-> TRUE, value |-> c]>>]

\* requests are numbered in their order of arrival
Arrives(r) ==
    /\ requests[r].pc = "idle"
    /\ \A s \in Slots : s < r => requests[s].pc # "idle"

\* GET /api/weather
GetWeather(r) ==
    /\ Arrives(r)
    /\ \E query \in LocationQueries(Located) :
         LET req == Arrived("/api/weather", query, 0)
         IN  IF Falsy(query.lat) \/ Falsy(query.lon)
             THEN /\ requests' = [requests EXCEPT ![r] =
                         Respond(req, 400,
                                 [error   |-> "Latitude and longitude are required",
                                  example |-> "/api/weather?lat=28.6139&lon=77.2090"])]
                  /\ UNCHANGED weatherService
             ELSE LET lat  == ParseFloat(query.lat.text)
                      lon  == ParseFloat(query.lon.text)
                      sent == GetCurrentWeather(weatherService, lat, lon)
                  IN  /\ requests' = [requests EXCEPT ![r] =
                             AwaitUpstream(req, "getCurrentWeather",
                                           [lat |-> lat, lon |-> lon], sent)]
                      /\ weatherService' = sent.this
    /\ UNCHANGED <<clock, env, scheduler, call>>

\* GET /api/weather/historical
GetWeatherHistorical(r) ==
    /\ Arrives(r)
    /\ \E query \in HistoricalQueries, seed \in Seeds :
         LET req == Arrived("/api/weather/historical", query, seed)
         IN  IF \/ Falsy(query.lat) \/ Falsy(query.lon)
                \/ Falsy(query.startDate) \/ Falsy(query.endDate)
             THEN requests' = [requests EXCEPT ![r] =
                      Respond([req EXCEPT !.draws = 0], 400,
                              [error |-> "Latitude, longitude, startDate, and endDate are required"])]
             ELSE LET args == [lat       |-> ParseFloat(query.lat.text),
                               lon       |-> ParseFloat(query.lon.text),
                               startDate |-> DateParse(query.startDate.text),
                               endDate   |-> DateParse(query.endDate.text)]
                  IN  requests' = [requests EXCEPT ![r] =
                          AwaitReturned(req,
                                        Invocation("getHistoricalWeather", args, 0,
                                                   env.TZ, seed),
                                        <<>>)]
    /\ UNCHANGED <<clock, env, weatherService, scheduler, call>>

\* GET /api/weather/forecast
GetWeatherForecastRoute(r) ==
    /\ Arrives(r)
    /\ \E query \in DaysQueries :
         LET req == Arrived("/api/weather/forecast", query, 0)
         IN  IF Falsy(query.lat) \/ Falsy(query.lon)
             THEN /\ requests' = [requests EXCEPT ![r] =
                         Respond(req, 400, [error |-> "Latitude and longitude are required"])]
                  /\ UNCHANGED weatherService
             ELSE LET lat  == ParseFloat(query.lat.text)
                      lon  == ParseFloat(query.lon.text)
                      days == DaysArgument(query.days)
                      sent == GetWeatherForecast(weatherService, lat, lon, days)
                  IN  /\ requests' = [requests EXCEPT ![r] =
                             AwaitUpstream(req, "getWeatherForecast",
                                           [lat |-> lat, lon |-> lon, days |-> days], sent)]
                      /\ weatherService' = sent.this
    /\ UNCHANGED <<clock, env, scheduler, call>>

\* GET /api/solar
GetSolar(r) ==
    /\ Arrives(r)
    /\ \E query \in LocationQueries(Located), seed \in Seeds :
         LET req == Arrived("/api/solar", query, seed)
         IN  IF Falsy(query.lat) \/ Falsy(query.lon)
             THEN requests' = [requests EXCEPT ![r] =
                      Respond([req EXCEPT !.draws = 0], 400,
                              [error |-> "Latitude and longitude are required"])]
             ELSE LET args == [lat |-> ParseFloat(query.lat.text),
                               lon |-> ParseFloat(query.lon.text)]
                  IN  requests' = [requests EXCEPT ![r] =
                          AwaitReturned(req,
                                        Invocation("getSolarIrradiance", args, clock,
                                                   env.TZ, SolarDraws(seed)),
                                        <<clock>>)]
    /\ UNCHANGED <<clock, env, weatherService, scheduler, call>>

\* GET /api/solar/predictions
GetSolarPredictions(r) ==
    /\ Arrives(r)
    /\ \E query \in DaysQueries, seed \in Seeds :
         LET req == Arrived("/api/solar/predictions", query, seed)
         IN  IF Falsy(query.lat) \/ Falsy(query.lon)
             THEN requests' = [requests EXCEPT ![r] =
                      Respond([req EXCEPT !.draws = 0], 400,
                              [error |-> "Latitude and longitude are required"])]
             ELSE LET args == [lat  |-> ParseFloat(query.lat.text),
                               lon  |-> ParseFloat(query.lon.text),
                               days |-> DaysArgument(query.days)]
                  IN  requests' = [requests EXCEPT ![r] =
                          AwaitReturned(req,
                                        Invocation("generatePredictions", args, clock,
                                                   env.TZ, seed),
                                        <<clock>>)]
    /\ UNCHANGED <<clock, env, weatherService, scheduler, call>>

\* GET /api/analytics
GetAnalytics(r) ==
    /\ Arrives(r)
    /\ \E query \in {NoQuery, Located} :
         requests' = [requests EXCEPT ![r] =
             Respond(Arrived("/api/analytics", query, 0), 200,
                     [message |-> "Analytics endpoint"])]
    /\ UNCHANGED <<clock, env, weatherService, scheduler, call>>

\* GET /api/predictions
GetPredictions(r) ==
    /\ Arrives(r)
    /\ \E query \in {NoQuery, Located} :
         requests' = [requests EXCEPT ![r] =
             Respond(Arrived("/api/predictions", query, 0), 200,
                     [message |-> "Predictions endpoint"])]
    /\ UNCHANGED <<clock, env, weatherService, scheduler, call>>

\* the provider answers the call of request r, and the service method goes on
\* from its await to its return or its throw
UpstreamSettlesRetrying(r) ==
    /\ requests[r].pc = "awaitUpstream"
    /\ \E reply \in IF requests[r].endpoint = "/api/weather"
                    THEN WeatherReplies ELSE ForecastReplies :
         LET req == requests[r]
             lat == req.calls[1].args.lat
         IN  requests' = [requests EXCEPT ![r] =
                 IF ~reply.ok /\ Len(req.upstream) = 1
                 THEN [req EXCEPT !.upstream = Append(@, @[1])]
                 ELSE IF req.endpoint = "/api/weather"
                 THEN [req EXCEPT
                          !.pc = "awaitService",
                          !.reply = <<reply>>,
                          !.reads = IF reply.ok /\ ~CurrentWeatherThrows(reply.data)
                                    THEN Append(@, clock) ELSE @,
                          !.settled = <<CurrentWeatherSettles(reply, lat, clock)>>]
                 ELSE [req EXCEPT
                          !.pc = "awaitService",
                          !.reply = <<reply>>,
                          !.settled = <<ForecastSettles(reply, lat)>>]]
    /\ UNCHANGED <<clock, env, weatherService, scheduler, call>>
UpstreamSettles(r) ==
    /\ requests[r].pc = "awaitUpstream"
    /\ \E reply \in IF requests[r].endpoint = "/api/weather"
                    THEN WeatherReplies ELSE ForecastReplies :
         LET req == requests[r]
             lat == req.calls[1].args.lat
         IN  requests' = [requests EXCEPT ![r] =
                 IF req.endpoint = "/api/weather"
                 THEN [req EXCEPT
                          !.pc = "awaitService",
                          !.reply = <<reply>>,
                          !.reads = IF reply.ok /\ ~CurrentWeatherThrows(reply.data)
                                    THEN Append(@, clock) ELSE @,
                          !.settled = <<CurrentWeatherSettles(reply, lat, clock)>>]
                 ELSE [req EXCEPT
                          !.pc = "awaitService",
                          !.reply = <<reply>>,
                          !.settled = <<ForecastSettles(reply, lat)>>]]
    /\ UNCHANGED <<clock, env, weatherService, scheduler, call>>

\* the `error` text of each route's catch block
RouteError ==
    [e \in {"/api/weather", "/api/weather/historical", "/api/weather/forecast",
            "/api/solar", "/api/solar/predictions"} |->
        CASE e = "/api/weather"            -> "Failed to fetch weather data"
          [] e = "/api/weather/historical" -> "Failed to fetch historical weather data"
          [] e = "/api/weather/forecast"   -> "Failed to fetch weather forecast"
          [] e = "/api/solar"              -> "Failed to fetch solar data"
          [] e = "/api/solar/predictions"  -> "Failed to generate predictions"]

\* the handler of request r resumes after its await: res.json(value), or the
\* catch block's res.status(500).json({ error, message })
Resumes(r) ==
    /\ requests[r].pc = "awaitService"
    /\ LET req     == requests[r]
           outcome == req.settled[1]
       IN  requests' = [requests EXCEPT ![r] =
               IF outcome.ok
               THEN Respond(req, 200, outcome.value)
               ELSE Respond(req, 500, [error   |-> RouteError[req.endpoint],
                                       message |-> outcome.error.message])]
    /\ UNCHANGED <<clock, env, weatherService, scheduler, call>>

\* time passes
Tick ==
    /\ clock < StartInstant + MaxTicks * Hour
    /\ clock' = clock + Hour
    /\ UNCHANGED <<requests, env, weatherService, scheduler, call>>

Init ==
    /\ \E e \in Environments : Started(e)
    /\ clock = StartInstant
    /\ call = NoCall

Next ==
    \/ \E r \in Slots : GetWeather(r)
    \/ \E r \in Slots : GetWeatherHistorical(r)
    \/ \E r \in Slots : GetWeatherForecastRoute(r)
    \/ \E r \in Slots : GetSolar(r)
    \/ \E r \in Slots : GetSolarPredictions(r)
    \/ \E r \in Slots : GetAnalytics(r)
    \/ \E r \in Slots : GetPredictions(r)
    \/ \E r \in Slots : UpstreamSettles(r)
    \/ \E r \in Slots : Resumes(r)
    \/ Tick

Spec == Init /\ [][Next]_vars

\* The provider answers every call in the end, and the event loop runs every
\* continuation that is ready.
Fairness ==
    \A r \in Slots : WF_vars(UpstreamSettles(r)) /\ WF_vars(Resumes(r))

\* the server within one instant of the clock
NextLive ==
    \/ \E r \in Slots : GetWeather(r)
    \/ \E r \in Slots : GetWeatherHistorical(r)
    \/ \E r \in Slots : GetWeatherForecastRoute(r)
    \/ \E r \in Slots : GetSolar(r)
    \/ \E r \in Slots : GetSolarPredictions(r)
    \/ \E r \in Slots : GetAnalytics(r)
    \/ \E r \in Slots : GetPredictions(r)
    \/ \E r \in Slots : UpstreamSettles(r)
    \/ \E r \in Slots : Resumes(r)

SpecLive == Init /\ [][NextLive]_vars /\ Fairness

(***************************************************************************)
(* The scheduler.  cron.schedule(expression, callback) registers a task    *)
(* whose callback runs at every minute of the process's local time that    *)
(* the five fields of the expression admit (minute, hour, day of month,    *)
(* month, day of week).  A callback runs as a step of its own, between the *)
(* steps of the request handlers.                                          *)
(***************************************************************************)

\* the values each field of the two expressions admits
CronFields(expression) ==
    CASE expression = "0 * * * *" ->
             [minute |-> {0}, hour |-> 0..23, dayOfMonth |-> 1..31,
              month |-> 1..12, dayOfWeek |-> 0..6]
      [] expression = "0 0 * * *" ->
             [minute |-> {0}, hour |-> {0}, dayOfMonth |-> 1..31,
              month |-> 1..12, dayOfWeek |-> 0..6]

\* whether the expression admits the instant t in the zone z (2024-01-01 was
\* a Monday, day 1 of the week)
CronMatches(expression, z, t) ==
    LET local  == LocalTime(z, t)
        fields == CronFields(expression)
    IN  /\ TimeWithinDay(local) % 60 \in fields.minute
        /\ TimeWithinDay(local) \div 60 \in fields.hour
        /\ DateFromTime(local) \in fields.dayOfMonth
        /\ MonthFromTime(local) + 1 \in fields.month
        /\ FloorMod(Day(local) + 1, 7) \in fields.dayOfWeek

\* a task registered at the instant `since`; fired lists the instants its
\* callback has run for
CronTask(expression, message, since) ==
    [expression |-> expression, message |-> message, since |-> since, fired |-> <<>>]

\* scheduleDataCollection(), called once
ScheduleDataCollection ==
    /\ scheduler.tasks = <<>>
    /\ scheduler' = [scheduler EXCEPT
           !.tasks = <<CronTask("0 * * * *", "Running scheduled weather data collection",
                                clock),
                       CronTask("0 0 * * *", "Running daily solar analysis", clock)>>,
           !.log = Append(@, "Data collection scheduler initialized")]
    /\ UNCHANGED <<requests, clock, env, weatherService, call>>

\* the instants after the task's last run, up to now, that its expression admits
CronDue(task, z, now) ==
    LET last == IF task.fired = <<>> THEN task.since ELSE task.fired[Len(task.fired)]
    IN  {t \in (last + 1)..now : CronMatches(task.expression, z, t)}

\* the callback of task k runs for its earliest due instant: logger.info
CronFiresCollecting(k) ==
    /\ k <= Len(scheduler.tasks)
    /\ LET task == scheduler.tasks[k]
           due  == CronDue(task, env.TZ, clock)
           sent == GetCurrentWeather(weatherService, Num(286139), Num(772090))
       IN  /\ due # {}
           /\ scheduler' = [scheduler EXCEPT
                  !.tasks[k].fired = Append(@, CHOOSE t \in due : \A u \in due : t <= u),
                  !.log = Append(@, task.message),
                  !.calls = Append(@, "getCurrentWeather"),
                  !.upstream = Append(@, sent.request)]
    /\ UNCHANGED <<requests, clock, env, weatherService, call>>
CronFires(k) ==
    /\ k <= Len(scheduler.tasks)
    /\ LET task == scheduler.tasks[k]
           due  == CronDue(task, env.TZ, clock)
       IN  /\ due # {}
           /\ scheduler' = [scheduler EXCEPT
                  !.tasks[k].fired = Append(@, CHOOSE t \in due : \A u \in due : t <= u),
                  !.log = Append(@, task.message)]
    /\ UNCHANGED <<requests, clock, env, weatherService, call>>

\* the server handling its first request, with the scheduler started at any
\* moment
NextScheduler ==
    \/ ScheduleDataCollection
    \/ \E k \in 1..2 : CronFires(k)
    \/ GetWeather(1)
    \/ GetWeatherHistorical(1)
    \/ GetWeatherForecastRoute(1)
    \/ GetSolar(1)
    \/ GetSolarPredictions(1)
    \/ GetAnalytics(1)
    \/ GetPredictions(1)
    \/ UpstreamSettles(1)
    \/ Resumes(1)
    \/ Tick

SpecScheduler == Init /\ [][NextScheduler]_vars

(***************************************************************************)
(* calculateSolarIrradiance on its own: the latitude is what parseFloat    *)
(* makes of the lat text of a request, the cloud cover a percentage of the *)
(* provider.                                                               *)
(***************************************************************************)
LatitudeTexts ==
    {LatText, <<"-">> \o LatText, NotANumber, <<"-">>,
     <<"0">>, <<"1", "2", "a", "b", "c">>, <<"4", "5">>, <<"6", "0", ".", "0">>,
     <<"8", "9", ".", "9", "9", "9", "9">>, <<"9", "0">>, <<"-", "9", "0">>}

CloudCovers == {0, 1, 20, 50, 99, 100}

IrradianceCalls ==
    {[op |-> "calculateSolarIrradiance",
      args |-> [cloudCover |-> cc, latitude |-> ParseFloat(t)],
      world |-> [now |-> 0, zone |-> "UTC", draws |-> 0, lat |-> t]] :
        cc \in CloudCovers, t \in LatitudeTexts}

ReturnCalculateSolarIrradiance ==
    /\ call.op = "calculateSolarIrradiance" /\ call.phase = "called"
    /\ call' = [call EXCEPT
           !.phase = "returned",
           !.result = CalculateSolarIrradiance(call.args.cloudCover, call.args.latitude)]
    /\ UNCHANGED <<requests, clock, env, weatherService, scheduler>>

SpecIrradiance == InitCall(IrradianceCalls) /\ [][ReturnCalculateSolarIrradiance]_vars

(***************************************************************************)
(* Properties of the service methods                                       *)
(***************************************************************************)
FInClosed(x, lo, hi) == FLe(FFromInt(lo), x) /\ FLe(x, FFromInt(hi))
FInHalfOpen(x, lo, hi) == FLe(FFromInt(lo), x) /\ FLt(x, FFromInt(hi))

\* C8, as stated: every record getSolarIrradiance returns has solarIrradiance
\* in [800, 1200), efficiency in [85, 95) and predictedOutput in [680, 1140).
C8_HalfOpenRanges ==
    Returned(call, "getSolarIrradiance") =>
        /\ FInHalfOpen(call.result.solarIrradiance, 800, 1200)
        /\ FInHalfOpen(call.result.efficiency, 85, 95)
        /\ FInHalfOpen(call.result.predictedOutput, 680, 1140)

\* C8, amended: every record getSolarIrradiance returns, for any lat and lon,
\* has solarIrradiance in [800, 1200], efficiency in [85, 95] and
\* predictedOutput = solarIrradiance * (efficiency / 100) in [680, 1140]; the
\* upper ends are attained, by rounding, for the greatest draws.
C8_ClosedRanges ==
    Returned(call, "getSolarIrradiance") =>
        /\ FInClosed(call.result.solarIrradiance, 800, 1200)
        /\ FInClosed(call.result.efficiency, 85, 95)
        /\ call.result.predictedOutput =
               FMul(call.result.solarIrradiance, FDivInt(call.result.efficiency, 100))
        /\ FInClosed(call.result.predictedOutput, 680, 1140)

\* a record whose solarIrradiance is exactly 1200 and whose efficiency lies
\* strictly inside its range, for a latitude that is NaN
C8_Witness ==
    /\ Returned(call, "getSolarIrradiance")
    /\ call.args.lat.nan
    /\ call.result.solarIrradiance = FFromInt(1200)
    /\ FLt(FFromInt(85), call.result.efficiency)
    /\ FLt(call.result.efficiency, FFromInt(95))

\* C9, as stated: dailyGeneration = solarIrradiance * 8 * (efficiency / 100) / 1000,
\* monthlyGeneration = 30 * dailyGeneration, yearlyGeneration = 365 * dailyGeneration.
C9_ExactMultiples ==
    Returned(call, "getSolarIrradiance") =>
        LET r == call.result
        IN  /\ r.dailyGeneration =
                   FDivInt(FMul(FMul(r.solarIrradiance, FFromInt(8)),
                                FDivInt(r.efficiency, 100)), 1000)
            /\ r.monthlyGeneration = FMul(FFromInt(30), r.dailyGeneration)
            /\ r.yearlyGeneration = FMul(FFromInt(365), r.dailyGeneration)

\* C9, amended: the generation fields are computed from the irradiance and the
\* efficiency the record reports: dailyGeneration = solarIrradiance * 8 *
\* (efficiency / 100) / 1000, monthlyGeneration = solarIrradiance * 8 * 30 *
\* (efficiency / 100) / 1000 and yearlyGeneration = solarIrradiance * 8 * 365 *
\* (efficiency / 100) / 1000, each evaluated left to right in Number arithmetic;
\* monthlyGeneration and yearlyGeneration agree with 30 and 365 times
\* dailyGeneration up to rounding (8 units in the last place), not bit for bit.
C9_SameDraws ==
    Returned(call, "getSolarIrradiance") =>
        LET r  == call.result
            b8 == FMul(r.solarIrradiance, FFromInt(8))
            pc == FDivInt(r.efficiency, 100)
        IN  /\ r.dailyGeneration = FDivInt(FMul(b8, pc), 1000)
            /\ r.monthlyGeneration = FDivInt(FMul(FMul(b8, FFromInt(30)), pc), 1000)
            /\ r.yearlyGeneration = FDivInt(FMul(FMul(b8, FFromInt(365)), pc), 1000)
            /\ FWithinUlps(r.monthlyGeneration, FMul(FFromInt(30), r.dailyGeneration), 8)
            /\ FWithinUlps(r.yearlyGeneration, FMul(FFromInt(365), r.dailyGeneration), 8)

\* a record whose monthlyGeneration differs from 30 * dailyGeneration in the
\* last place
C9_Witness ==
    /\ Returned(call, "getSolarIrradiance")
    /\ call.result.monthlyGeneration # FMul(FFromInt(30), call.result.dailyGeneration)
    /\ FLt(FZero, call.result.dailyGeneration)

\* C10: for every region and every coordinate list, analyzeRegion returns the
\* region's fixed averageEfficiency (city 0.8, hill 0.95, rural 0.9), totalSites =
\* the number of coordinates, estimatedCapacity = 100 * totalSites, the region and
\* the coordinates it was given, and the same result when called again.
C10_AnalyzeRegion ==
    Returned(call, "analyzeRegion") =>
        LET r == call.result
        IN  /\ r.averageEfficiency =
                   (CASE call.args.region = "city"  -> FDec(8, 10)
                      [] call.args.region = "hill"  -> FDec(95, 100)
                      [] call.args.region = "rural" -> FDec(9, 10))
            /\ r.totalSites = Len(call.args.coordinates)
            /\ r.estimatedCapacity = 100 * r.totalSites
            /\ r.region = call.args.region
            /\ r.coordinates = call.args.coordinates
            /\ call.again # <<>> => call.again[1] = r

\* analyzeRegion('hill', two coordinates) called twice: 0.95, 2 sites, 200 MW
C10_Witness ==
    /\ Returned(call, "analyzeRegion")
    /\ call.args.region = "hill"
    /\ Len(call.args.coordinates) = 2
    /\ call.result.estimatedCapacity = 200
    /\ call.again # <<>>

\* the day number of a YYYY-MM-DD date
DayOfIsoDate(d) == MakeDay(d.year, d.month - 1, d.day)

IsWholeNonNegative(x) == ~x.nan /\ x.v >= 0 /\ x.v % Scale = 0

\* C4, as stated: for a non-negative integer days, at any instant and in any
\* server time zone, generatePredictions returns exactly days entries; the first
\* date is the current date (read here as the date toISOString gives the current
\* instant) and each following date is the day after the one before it.
C4_ContiguousDates ==
    (Returned(call, "generatePredictions") /\ IsWholeNonNegative(call.args.days)) =>
        LET r == call.result
        IN  /\ Len(r) = call.args.days.v \div Scale
            /\ Len(r) > 0 => r[1].date = IsoDatePart(ToISOString(DateOf(call.world.now)))
            /\ \A i \in 1..(Len(r) - 1) :
                   DayOfIsoDate(r[i + 1].date) = DayOfIsoDate(r[i].date) + 1

AtMidnightUTC(d) == ~d.nan /\ TimeWithinDay(d.t) = 0

\* C5, as stated: getHistoricalWeather returns one record per calendar day in
\* [start, end], in ascending order, the first at start and each one day after
\* the one before it; none when start > end; and it leaves the caller's start
\* and end as they were.  (The count and the spacing are stated for start and
\* end at 00:00Z, where a calendar day of the range is one UTC date.)
C5_OneRecordPerDay ==
    (Returned(call, "getHistoricalWeather")
        /\ ~call.args.startDate.nan /\ ~call.args.endDate.nan) =>
        LET r     == call.result.mockData
            start == call.args.startDate
            end   == call.args.endDate
        IN  /\ start.t > end.t => r = <<>>
            /\ call.result.frame.cells[1] = start
            /\ call.result.frame.cells[2] = end
            /\ (AtMidnightUTC(start) /\ AtMidnightUTC(end) /\ start.t <= end.t) =>
                   /\ Len(r) = Day(end.t) - Day(start.t) + 1
                   /\ \A i \in 1..Len(r) :
                          r[i].timestamp =
                              ToISOString(DateOf(start.t + (i - 1) * MinPerDay))


(***************************************************************************)
(* Properties of the HTTP server                                           *)
(***************************************************************************)
Parameterised ==
    {"/api/weather", "/api/weather/historical", "/api/weather/forecast",
     "/api/solar", "/api/solar/predictions"}

Received == {r \in Slots : requests[r].pc # "idle"}
Done == {r \in Slots : requests[r].pc = "done"}

Required(endpoint) ==
    IF endpoint = "/api/weather/historical"
    THEN {"lat", "lon", "startDate", "endDate"}
    ELSE {"lat", "lon"}

AbsentOrEmpty(v) == ~v.present \/ Len(v.text) = 0

LacksRequired(req) ==
    /\ req.endpoint \in Parameterised
    /\ \E p \in Required(req.endpoint) : AbsentOrEmpty(req.query[p])

\* C1: on each of the five parameterised endpoints, a request in which a
\* required query parameter (lat or lon; also startDate or endDate on
\* /historical) is absent or empty is answered with HTTP 400 and a body that
\* has an `error` field, and its handler calls no service method and hence no
\* provider.
C1_MissingParameter ==
    \A r \in Received :
        LacksRequired(requests[r]) =>
            /\ requests[r].pc = "done"
            /\ Len(requests[r].responses) = 1
            /\ requests[r].responses[1].status = 400
            /\ "error" \in DOMAIN requests[r].responses[1].body
            /\ requests[r].calls = <<>>
            /\ requests[r].upstream = <<>>

\* a request to /historical whose endDate is empty, and one to another
\* endpoint without lat, have both been answered
C1_Witness ==
    \E r, s \in Done :
        /\ requests[r].endpoint = "/api/weather/historical"
        /\ requests[r].query = [Ranged EXCEPT !.endDate = Text(<<>>)]
        /\ requests[r].responses[1].status = 400
        /\ requests[s].endpoint # "/api/weather/historical"
        /\ requests[s].query = [Located EXCEPT !.lat = Undefined]
        /\ requests[s].responses[1].status = 400

TakesDays(endpoint) == endpoint \in {"/api/weather/forecast", "/api/solar/predictions"}

\* every required parameter is given, and some parameter is not parsable
Invalid(req) ==
    /\ req.endpoint \in Parameterised
    /\ ~LacksRequired(req)
    /\ \/ ParseFloat(req.query.lat.text).nan
       \/ ParseFloat(req.query.lon.text).nan
       \/ /\ TakesDays(req.endpoint)
          /\ req.query.days.present
          /\ ParseInt(req.query.days.text).nan
       \/ /\ req.endpoint = "/api/weather/historical"
          /\ \/ DateParse(req.query.startDate.text).nan
             \/ DateParse(req.query.endDate.text).nan

\* C2, as stated: a request whose parameters are present but invalid (lat or
\* lon not a number, days not an integer, startDate or endDate not a date) is
\* answered with HTTP 400, never with 200, and no service method is called
\* for it with a NaN or invalid-date argument.
C2_InvalidRejected ==
    \A r \in Received :
        Invalid(requests[r]) =>
            /\ requests[r].calls = <<>>
            /\ \A k \in 1..Len(requests[r].responses) :
                   requests[r].responses[k].status = 400

GenericText(endpoint) ==
    IF endpoint = "/api/weather" THEN "Failed to fetch weather data"
    ELSE "Failed to fetch weather forecast"

\* the provider's call failed, or reading its reply throws
CallFailed(req) ==
    /\ req.reply # <<>>
    /\ \/ ~req.reply[1].ok
       \/ req.endpoint = "/api/weather" /\ CurrentWeatherThrows(req.reply[1].data)
       \/ req.endpoint = "/api/weather/forecast" /\ ForecastThrows(req.reply[1].data)

\* C3: when the provider's call fails, or an exception is raised while the
\* response is built (also while one entry of the forecast list is mapped),
\* the request to /api/weather or /api/weather/forecast is answered once, with
\* HTTP 500 and a body made of `error` and `message` only, where message is
\* the service's fixed 'Failed to fetch ...' text: no record or list, whole or
\* partial, and nothing of the original error.
C3_GenericFailure ==
    \A r \in Done :
        LET req == requests[r]
        IN  (req.endpoint \in {"/api/weather", "/api/weather/forecast"} /\ CallFailed(req)) =>
                /\ Len(req.responses) = 1
                /\ req.responses[1].status = 500
                /\ DOMAIN req.responses[1].body = {"error", "message"}
                /\ req.responses[1].body.message = GenericText(req.endpoint)
                /\ \A f \in {"error", "message"} :
                       /\ req.responses[1].body[f] # Rejection.error.message
                       /\ req.responses[1].body[f] # TypeError.message

\* a forecast whose second entry cannot be mapped, and a rejected call for the
\* current weather, have both been answered
C3_Witness ==
    \E r, s \in Done :
        /\ requests[r].endpoint = "/api/weather/forecast"
        /\ requests[r].reply # <<>>
        /\ requests[r].reply[1].ok
        /\ requests[r].reply[1].data.list # Missing
        /\ ~ForecastItemThrows(requests[r].reply[1].data, requests[r].reply[1].data.list[1][1])
        /\ ForecastThrows(requests[r].reply[1].data)
        /\ requests[r].responses[1].status = 500
        /\ requests[s].endpoint = "/api/weather"
        /\ requests[s].reply = <<Rejection>>
        /\ requests[s].responses[1].status = 500

\* C6, as stated: the request form of the README, GET /api/weather/historical
\* with lat, lon, start and end, is answered with HTTP 200 and the records of
\* the range, not with HTTP 400.
C6_ReadmeFormAccepted ==
    \A r \in Done :
        (requests[r].endpoint = "/api/weather/historical"
         /\ requests[r].query = ReadmeHistorical) =>
            /\ requests[r].responses[1].status = 200
            /\ requests[r].calls # <<>>

\* what the client receives: the status, and the body with the result of the
\* service method in place of its invocation
Answer(req) ==
    LET sent == req.responses[1]
    IN  [status |-> sent.status,
         body   |-> IF sent.status = 200 /\ req.settled # <<>> /\ req.upstream = <<>>
                    THEN ResultOf(sent.body)
                    ELSE sent.body]

SameAnswer(a, b) ==
    /\ Len(a.responses) = Len(b.responses)
    /\ a.responses = b.responses \/ Answer(a) = Answer(b)

\* C7, as stated: the status and body of a request's response depend only on
\* the request's own parameters, its own random draws and its own reply from
\* the provider: two requests that agree on these get the same response.
C7_OwnInputsOnly ==
    \A r, s \in Done :
        (/\ requests[r].endpoint = requests[s].endpoint
         /\ requests[r].query = requests[s].query
         /\ requests[r].draws = requests[s].draws
         /\ requests[r].reply = requests[s].reply) =>
            SameAnswer(requests[r], requests[s])

C7_State ==
    /\ weatherService = WeatherServiceNew(env)
    /\ \A r, s \in Done :
           (/\ requests[r].endpoint = requests[s].endpoint
            /\ requests[r].query = requests[s].query
            /\ requests[r].draws = requests[s].draws
            /\ requests[r].reply = requests[s].reply
            /\ requests[r].reads = requests[s].reads) =>
               SameAnswer(requests[r], requests[s])

C7_Step ==
    /\ weatherService' = weatherService
    /\ \A r, s \in Slots :
           (r # s /\ requests'[r] # requests[r]) => requests'[s] = requests[s]

\* C7, amended: under every interleaving of the requests in progress, the
\* status and body of a request's response depend only on the request's own
\* parameters, its own random draws, its own reply from the provider and the
\* instants at which it read the clock (in a process whose time zone is
\* fixed); a step of one request changes nothing of another request, and the
\* WeatherService instance stays as its constructor made it.
C7_Independent == [](C7_State) /\ [][C7_Step]_vars

\* a later request has been answered from its own reply of the provider while
\* an earlier one is still suspended at its call, and two requests with the
\* same parameters and draws have been answered
C7_Witness ==
    \/ \E r, s \in Slots :
           /\ r < s
           /\ requests[r].pc = "awaitUpstream"
           /\ requests[s].pc = "done"
           /\ requests[s].reply # <<>>
           /\ requests[s].responses[1].status = 200
    \/ \E r, s \in Done :
           /\ r < s
           /\ requests[r].endpoint = "/api/solar"
           /\ requests[s].endpoint = "/api/solar"
           /\ requests[r].query = requests[s].query
           /\ requests[r].draws = requests[s].draws
           /\ requests[r].reads = requests[s].reads
           /\ requests[r].responses[1].status = 200


(***************************************************************************)
(* Properties of calculateSolarIrradiance                                  *)
(***************************************************************************)

\* C11, as stated: calculateSolarIrradiance(cloudCover, latitude) returns 0
\* whenever cloudCover = 100, for every latitude that parsing a lat text can
\* give, and for cloudCover in [0, 100] and |latitude| <= 90 the result lies
\* in [0, 1000].
C11_ZeroAtFullCloud ==
    Returned(call, "calculateSolarIrradiance") =>
        /\ call.args.cloudCover = 100 => call.result = FZero
        /\ (/\ call.args.cloudCover \in 0..100
            /\ ~call.args.latitude.nan
            /\ call.args.latitude.v <= 90 * Scale
            /\ call.args.latitude.v >= 0 - 90 * Scale) =>
               /\ call.result # NaN
               /\ FInClosed(call.result, 0, 1000)

(***************************************************************************)
(* Properties of the calls to the provider                                 *)
(***************************************************************************)
CallsProvider(endpoint) == endpoint \in {"/api/weather", "/api/weather/forecast"}

C12_State ==
    \A r \in Received :
        LET req == requests[r]
        IN  /\ Len(req.upstream) <= 1
            /\ ~CallsProvider(req.endpoint) => req.upstream = <<>>
            /\ req.reply # <<>> =>
                   /\ Len(req.upstream) = 1
                   /\ req.pc \in {"awaitService", "done"}

C12_Step ==
    \A r \in Slots :
        (requests[r].pc # "idle" /\ requests[r].reply # <<>>) =>
            requests'[r].upstream = requests[r].upstream

\* C12: no retry.  A request to /api/weather or /api/weather/forecast causes
\* at most one call to the provider; once that call has been answered, by a
\* failure in particular, the request issues no further call and goes on to
\* its response; requests to the historical, solar, analytics and predictions
\* endpoints never call the provider.
C12_NoRetry == [](C12_State) /\ [][C12_Step]_vars

\* the provider's call of a request has failed and the request has been
\* answered, one call having been made for it
C12_Witness ==
    \E r \in Done :
        /\ CallsProvider(requests[r].endpoint)
        /\ requests[r].reply = <<Rejection>>
        /\ Len(requests[r].upstream) = 1
        /\ requests[r].responses[1].status = 500

(***************************************************************************)
(* Properties of the scheduler                                             *)
(***************************************************************************)
MinuteOfHour(z, t) == TimeWithinDay(LocalTime(z, t)) % 60
HourOfDay(z, t) == TimeWithinDay(LocalTime(z, t)) \div 60

\* the instants a task has run for are, in order, all those from its
\* registration to its last run at which `when` holds
RunsExactlyWhen(task, when(_)) ==
    /\ \A i \in 1..Len(task.fired) : task.fired[i] > task.since /\ when(task.fired[i])
    /\ \A i \in 1..(Len(task.fired) - 1) : task.fired[i] < task.fired[i + 1]
    /\ task.fired # <<>> =>
           \A t \in (task.since + 1)..task.fired[Len(task.fired)] :
               when(t) => \E i \in 1..Len(task.fired) : task.fired[i] = t

C13_State ==
    LET TopOfHour(t) == MinuteOfHour(env.TZ, t) = 0
        Midnight(t)  == MinuteOfHour(env.TZ, t) = 0 /\ HourOfDay(env.TZ, t) = 0
    IN  /\ scheduler.calls = <<>>
        /\ scheduler.upstream = <<>>
        /\ scheduler.tasks # <<>> =>
               /\ Len(scheduler.tasks) = 2
               /\ scheduler.tasks[1].expression = "0 * * * *"
               /\ scheduler.tasks[2].expression = "0 0 * * *"
               /\ RunsExactlyWhen(scheduler.tasks[1], TopOfHour)
               /\ RunsExactlyWhen(scheduler.tasks[2], Midnight)
               /\ \A i \in 1..Len(scheduler.tasks[2].fired) :
                      CronMatches(scheduler.tasks[1].expression, env.TZ,
                                  scheduler.tasks[2].fired[i])

C13_Step ==
    scheduler' # scheduler =>
        /\ <<requests, clock, env, weatherService>>' = <<requests, clock, env, weatherService>>
        /\ Len(scheduler'.log) = Len(scheduler.log) + 1
        /\ scheduler.tasks # <<>> =>
               /\ Len(scheduler'.tasks) = 2
               /\ \A k \in 1..2 :
                      /\ scheduler'.tasks[k].expression = scheduler.tasks[k].expression
                      /\ scheduler'.tasks[k].since = scheduler.tasks[k].since

\* C13: one call of scheduleDataCollection registers exactly two periodic
\* triggers, the first running at minute 0 of every hour and the second at
\* 00:00 of every day of the process's local time, so that every instant the
\* daily one runs for is one of the hourly one; a run of either, in any order
\* and between any steps of a request, only writes a log line: it calls no
\* provider and no service method and leaves the requests, the clock, the
\* configuration and the WeatherService instance as they are.
C13_Scheduler == [](C13_State) /\ [][C13_Step]_vars

\* both triggers have run, the daily one for an instant the hourly one has run
\* for too, while a request is suspended at its call of the provider
C13_Witness ==
    /\ Len(scheduler.tasks) = 2
    /\ scheduler.tasks[1].fired # <<>>
    /\ scheduler.tasks[2].fired # <<>>
    /\ scheduler.tasks[1].fired[1] = scheduler.tasks[2].fired[1]
    /\ requests[1].pc = "awaitUpstream"

(***************************************************************************)
(* Properties of the responses                                             *)
(***************************************************************************)
StaticMessage(endpoint) ==
    IF endpoint = "/api/analytics" THEN "Analytics endpoint" ELSE "Predictions endpoint"

C14_State ==
    \A r \in Received :
        LET req == requests[r]
        IN  /\ Len(req.responses) <= 1
            /\ req.pc = "done" <=> Len(req.responses) = 1
            /\ \A k \in 1..Len(req.responses) : req.responses[k].status \in {200, 400, 500}
            /\ req.endpoint \in {"/api/analytics", "/api/predictions"} =>
                   req.responses =
                       <<[status |-> 200, body |-> [message |-> StaticMessage(req.endpoint)]]>>

C14_Step ==
    \A r \in Slots :
        (requests[r].pc # "idle" /\ requests[r].responses # <<>>) =>
            requests'[r] = requests[r]

\* C14: every request to one of the seven endpoints gets exactly one
\* response in the end, provided the provider answers its pending call: the
\* status is 200, 400 or 500, nothing is sent after the first response, and
\* /api/analytics and /api/predictions answer 200 with their fixed message
\* whatever the query.
C14_OneResponse ==
    /\ [](C14_State)
    /\ [][C14_Step]_vars
    /\ \A r \in Slots :
           (requests[r].pc # "idle") ~> (requests[r].pc = "done" /\ Len(requests[r].responses) = 1)

\* a request that called the provider and a static one given a query have
\* both been answered
C14_Witness ==
    \E r, s \in Done :
        /\ requests[r].upstream # <<>>
        /\ requests[r].responses[1].status = 200
        /\ requests[s].endpoint = "/api/analytics"
        /\ requests[s].query = Located
        /\ requests[s].responses[1].status = 200

=============================================================================
